---- MODULE Spec2Model ----
(***************************************************************************)
(* scriba: the streaming transcription pipeline of src/src/main.rs.        *)
(*                                                                         *)
(* audio callback --audio_q--> processing task (chunker, sample converter, *)
(* recognizer) --result_q--> consumption loop (confidence gate,            *)
(* normalizer, typing emitter).                                            *)
(*                                                                         *)
(* A String is a sequence of characters, each character a TLA+ string      *)
(* naming it; a confidence is an integer number of hundredths; an f32      *)
(* sample is a number of quarters, or NaN.                                 *)
(***************************************************************************)
EXTENDS Integers, Sequences, FiniteSets, TLC

(***************************************************************************)
(* Bounds of the model.                                                    *)
(***************************************************************************)

\* const BUFFER_SIZE: usize = 4000 (main.rs:726), scaled down so that a
\* block sequence can be enumerated; every formula is stated in terms of it.
BUFFER_SIZE == 2

\* Number of times the audio callback delivers a block during a run.
MaxPushes == 2

\* Number of type_text calls in the Typing Emitter's unit specification.
MaxCalls == 2

\* The longest sample sequence handed to the Sample Converter on its own.
MaxSamples == 2

\* How many times in a row a function is run on its own output.
MaxRuns == 2

\* The sizes of the blocks the audio callback delivers: less than a chunk,
\* exactly a chunk, and two chunks at once.
BlockLens == {1, BUFFER_SIZE, 2 * BUFFER_SIZE}

(***************************************************************************)
(* Strings.                                                                *)
(***************************************************************************)

UnitWords ==
    <<<<"o", "n", "e">>,
      <<"t", "w", "o">>,
      <<"t", "h", "r", "e", "e">>,
      <<"f", "o", "u", "r">>,
      <<"f", "i", "v", "e">>,
      <<"s", "i", "x">>,
      <<"s", "e", "v", "e", "n">>,
      <<"e", "i", "g", "h", "t">>,
      <<"n", "i", "n", "e">>>>

TeenWords ==
    <<<<"t", "e", "n">>,
      <<"e", "l", "e", "v", "e", "n">>,
      <<"t", "w", "e", "l", "v", "e">>,
      <<"t", "h", "i", "r", "t", "e", "e", "n">>,
      <<"f", "o", "u", "r", "t", "e", "e", "n">>,
      <<"f", "i", "f", "t", "e", "e", "n">>,
      <<"s", "i", "x", "t", "e", "e", "n">>,
      <<"s", "e", "v", "e", "n", "t", "e", "e", "n">>,
      <<"e", "i", "g", "h", "t", "e", "e", "n">>,
      <<"n", "i", "n", "e", "t", "e", "e", "n">>>>

TensWords ==
    <<<<"t", "w", "e", "n", "t", "y">>,
      <<"t", "h", "i", "r", "t", "y">>,
      <<"f", "o", "r", "t", "y">>,
      <<"f", "i", "f", "t", "y">>,
      <<"s", "i", "x", "t", "y">>,
      <<"s", "e", "v", "e", "n", "t", "y">>,
      <<"e", "i", "g", "h", "t", "y">>,
      <<"n", "i", "n", "e", "t", "y">>>>

LowerLetters == <<"a", "b", "c", "d", "e", "f", "g", "h", "i", "j", "k", "l", "m", "n", "o", "p", "q", "r", "s", "t", "u", "v", "w", "x", "y", "z">>

UpperLetters == <<"A", "B", "C", "D", "E", "F", "G", "H", "I", "J", "K", "L", "M", "N", "O", "P", "Q", "R", "S", "T", "U", "V", "W", "X", "Y", "Z">>

\* The rules of the table of main.rs:566-643, group by group as the source
\* lists them: <<phrase, replacement>>, each phrase compiled as the regex
\* \b<phrase>\b.
\* // Complex numbers first (more specific patterns) (main.rs:567-576)
ComplexRules ==
    <<
       <<<<"o", "n", "e", " ", "t", "h", "o", "u", "s", "a", "n", "d">>, <<"1", "0", "0", "0">>>>,
       <<<<"t", "w", "o", " ", "t", "h", "o", "u", "s", "a", "n", "d">>, <<"2", "0", "0", "0">>>>,
       <<<<"t", "h", "r", "e", "e", " ", "t", "h", "o", "u", "s", "a", "n", "d">>, <<"3", "0", "0", "0">>>>,
       <<<<"f", "o", "u", "r", " ", "t", "h", "o", "u", "s", "a", "n", "d">>, <<"4", "0", "0", "0">>>>,
       <<<<"f", "i", "v", "e", " ", "t", "h", "o", "u", "s", "a", "n", "d">>, <<"5", "0", "0", "0">>>>,
       <<<<"s", "i", "x", " ", "t", "h", "o", "u", "s", "a", "n", "d">>, <<"6", "0", "0", "0">>>>,
       <<<<"s", "e", "v", "e", "n", " ", "t", "h", "o", "u", "s", "a", "n", "d">>, <<"7", "0", "0", "0">>>>,
       <<<<"e", "i", "g", "h", "t", " ", "t", "h", "o", "u", "s", "a", "n", "d">>, <<"8", "0", "0", "0">>>>,
       <<<<"n", "i", "n", "e", " ", "t", "h", "o", "u", "s", "a", "n", "d">>, <<"9", "0", "0", "0">>>>
    >>

\* // Hundreds (main.rs:578-587)
HundredRules ==
    <<
       <<<<"o", "n", "e", " ", "h", "u", "n", "d", "r", "e", "d">>, <<"1", "0", "0">>>>,
       <<<<"t", "w", "o", " ", "h", "u", "n", "d", "r", "e", "d">>, <<"2", "0", "0">>>>,
       <<<<"t", "h", "r", "e", "e", " ", "h", "u", "n", "d", "r", "e", "d">>, <<"3", "0", "0">>>>,
       <<<<"f", "o", "u", "r", " ", "h", "u", "n", "d", "r", "e", "d">>, <<"4", "0", "0">>>>,
       <<<<"f", "i", "v", "e", " ", "h", "u", "n", "d", "r", "e", "d">>, <<"5", "0", "0">>>>,
       <<<<"s", "i", "x", " ", "h", "u", "n", "d", "r", "e", "d">>, <<"6", "0", "0">>>>,
       <<<<"s", "e", "v", "e", "n", " ", "h", "u", "n", "d", "r", "e", "d">>, <<"7", "0", "0">>>>,
       <<<<"e", "i", "g", "h", "t", " ", "h", "u", "n", "d", "r", "e", "d">>, <<"8", "0", "0">>>>,
       <<<<"n", "i", "n", "e", " ", "h", "u", "n", "d", "r", "e", "d">>, <<"9", "0", "0">>>>
    >>

\* // Teens (main.rs:589-598)
TeenRules ==
    <<
       <<<<"e", "l", "e", "v", "e", "n">>, <<"1", "1">>>>,
       <<<<"t", "w", "e", "l", "v", "e">>, <<"1", "2">>>>,
       <<<<"t", "h", "i", "r", "t", "e", "e", "n">>, <<"1", "3">>>>,
       <<<<"f", "o", "u", "r", "t", "e", "e", "n">>, <<"1", "4">>>>,
       <<<<"f", "i", "f", "t", "e", "e", "n">>, <<"1", "5">>>>,
       <<<<"s", "i", "x", "t", "e", "e", "n">>, <<"1", "6">>>>,
       <<<<"s", "e", "v", "e", "n", "t", "e", "e", "n">>, <<"1", "7">>>>,
       <<<<"e", "i", "g", "h", "t", "e", "e", "n">>, <<"1", "8">>>>,
       <<<<"n", "i", "n", "e", "t", "e", "e", "n">>, <<"1", "9">>>>
    >>

\* // Tens (main.rs:600-609)
TensRules ==
    <<
       <<<<"t", "e", "n">>, <<"1", "0">>>>,
       <<<<"t", "w", "e", "n", "t", "y">>, <<"2", "0">>>>,
       <<<<"t", "h", "i", "r", "t", "y">>, <<"3", "0">>>>,
       <<<<"f", "o", "r", "t", "y">>, <<"4", "0">>>>,
       <<<<"f", "i", "f", "t", "y">>, <<"5", "0">>>>,
       <<<<"s", "i", "x", "t", "y">>, <<"6", "0">>>>,
       <<<<"s", "e", "v", "e", "n", "t", "y">>, <<"7", "0">>>>,
       <<<<"e", "i", "g", "h", "t", "y">>, <<"8", "0">>>>,
       <<<<"n", "i", "n", "e", "t", "y">>, <<"9", "0">>>>
    >>

\* // Individual digits (after more complex patterns) (main.rs:611-621)
DigitRules ==
    <<
       <<<<"z", "e", "r", "o">>, <<"0">>>>,
       <<<<"o", "n", "e">>, <<"1">>>>,
       <<<<"t", "w", "o">>, <<"2">>>>,
       <<<<"t", "h", "r", "e", "e">>, <<"3">>>>,
       <<<<"f", "o", "u", "r">>, <<"4">>>>,
       <<<<"f", "i", "v", "e">>, <<"5">>>>,
       <<<<"s", "i", "x">>, <<"6">>>>,
       <<<<"s", "e", "v", "e", "n">>, <<"7">>>>,
       <<<<"e", "i", "g", "h", "t">>, <<"8">>>>,
       <<<<"n", "i", "n", "e">>, <<"9">>>>
    >>

\* // Common programming terms (main.rs:623-642)
TermRules ==
    <<
       <<<<"n", "u", "l", "l">>, <<"n", "u", "l", "l">>>>,
       <<<<"t", "r", "u", "e">>, <<"t", "r", "u", "e">>>>,
       <<<<"f", "a", "l", "s", "e">>, <<"f", "a", "l", "s", "e">>>>,
       <<<<"e", "m", "p", "t", "y", " ", "s", "t", "r", "i", "n", "g">>, <<"\"", "\"">>>>,
       <<<<"o", "p", "e", "n", " ", "p", "a", "r", "e", "n">>, <<"(">>>>,
       <<<<"c", "l", "o", "s", "e", " ", "p", "a", "r", "e", "n">>, <<")">>>>,
       <<<<"o", "p", "e", "n", " ", "b", "r", "a", "c", "k", "e", "t">>, <<"[">>>>,
       <<<<"c", "l", "o", "s", "e", " ", "b", "r", "a", "c", "k", "e", "t">>, <<"]">>>>,
       <<<<"o", "p", "e", "n", " ", "b", "r", "a", "c", "e">>, <<"{">>>>,
       <<<<"c", "l", "o", "s", "e", " ", "b", "r", "a", "c", "e">>, <<"}">>>>,
       <<<<"s", "e", "m", "i", "c", "o", "l", "o", "n">>, <<";">>>>,
       <<<<"c", "o", "l", "o", "n">>, <<":">>>>,
       <<<<"c", "o", "m", "m", "a">>, <<",">>>>,
       <<<<"d", "o", "t">>, <<".">>>>,
       <<<<"e", "q", "u", "a", "l", "s">>, <<"=">>>>,
       <<<<"p", "l", "u", "s">>, <<"+">>>>,
       <<<<"m", "i", "n", "u", "s">>, <<"-">>>>,
       <<<<"t", "i", "m", "e", "s">>, <<"*">>>>,
       <<<<"d", "i", "v", "i", "d", "e">>, <<"/">>>>
    >>

\* NUMBER_PATTERNS as it would be with the single digits listed first.
NUMBER_PATTERNS_DigitsFirst ==
    DigitRules \o ComplexRules \o HundredRules \o TeenRules \o TensRules \o TermRules

\* The table in source order.
NUMBER_PATTERNS ==
    ComplexRules \o HundredRules \o TeenRules \o TensRules \o DigitRules \o TermRules

Digits == <<"0", "1", "2", "3", "4", "5", "6", "7", "8", "9">>

\* Characters outside ASCII are named by their code point.
\* U+00E9 is e-acute, U+00C9 its capital, U+4F60 a CJK ideograph.
TwoByteChars == {"U+00E9", "U+00C9"}

ThreeByteChars == {"U+4F60"}

Range(f) == {f[i] : i \in DOMAIN f}

\* The characters the regex class \w matches (Unicode-aware in the regex crate).
WordChars ==
    Range(LowerLetters) \cup Range(UpperLetters) \cup Range(Digits)
        \cup {"_"} \cup TwoByteChars \cup ThreeByteChars

IsWordChar(c) == c \in WordChars

\* char::len_utf8: the number of bytes of a character in a String.
Utf8Len(c) ==
    IF c \in TwoByteChars THEN 2
    ELSE IF c \in ThreeByteChars THEN 3
    ELSE 1

RECURSIVE SumLen(_, _)
SumLen(s, i) == IF i > Len(s) THEN 0 ELSE Utf8Len(s[i]) + SumLen(s, i + 1)

\* String::len: the length in bytes, not in characters.
ByteLen(s) == SumLen(s, 1)

\* str::trim().is_empty(): nothing but white space.
IsBlank(s) == \A i \in 1..Len(s) : s[i] = " "

IndexOf(tbl, w) ==
    IF \E i \in DOMAIN tbl : tbl[i] = w
    THEN CHOOSE i \in DOMAIN tbl : tbl[i] = w
    ELSE 0

ToLowerChar(c) ==
    IF IndexOf(UpperLetters, c) > 0 THEN LowerLetters[IndexOf(UpperLetters, c)]
    ELSE IF c = "U+00C9" THEN "U+00E9"
    ELSE c

\* str::to_lowercase
ToLowercase(s) == [i \in 1..Len(s) |-> ToLowerChar(s[i])]

TenDot == <<"T", "e", "n", " ", "d", "o", "t">>

\* The non-blank texts the engine finalizes.
FinalTexts == {TenDot}

(***************************************************************************)
(* Transcription Normalizer: convert_words_to_numbers (text2num's          *)
(* replace_numbers_in_text with threshold 0.0), then NUMBER_PATTERNS.      *)
(***************************************************************************)

\* The words of a text: the maximal runs between single spaces.
RECURSIVE SplitFrom(_, _, _)
SplitFrom(s, i, cur) ==
    IF i > Len(s) THEN <<cur>>
    ELSE IF s[i] = " " THEN <<cur>> \o SplitFrom(s, i + 1, <<>>)
    ELSE SplitFrom(s, i + 1, Append(cur, s[i]))

SplitWords(s) == SplitFrom(s, 1, <<>>)

RECURSIVE JoinFrom(_, _)
JoinFrom(ws, i) ==
    IF i > Len(ws) THEN <<>>
    ELSE IF i = Len(ws) THEN ws[i]
    ELSE ws[i] \o <<" ">> \o JoinFrom(ws, i + 1)

JoinWords(ws) == JoinFrom(ws, 1)

WordAt(ws, i) == IF i \in DOMAIN ws THEN ws[i] ELSE <<>>

UnitVal(w) == IndexOf(UnitWords, w)

TeenVal(w) == IF IndexOf(TeenWords, w) > 0 THEN 9 + IndexOf(TeenWords, w) ELSE 0

TensVal(w) == IF IndexOf(TensWords, w) > 0 THEN 10 * (1 + IndexOf(TensWords, w)) ELSE 0

HundredWord == <<"h", "u", "n", "d", "r", "e", "d">>

ThousandWord == <<"t", "h", "o", "u", "s", "a", "n", "d">>

ZeroWord == <<"z", "e", "r", "o">>

\* A numeral below one hundred starting at word i: <<value, words consumed>>.
Sub100(ws, i) ==
    IF TensVal(WordAt(ws, i)) > 0
    THEN IF UnitVal(WordAt(ws, i + 1)) > 0
         THEN <<TensVal(ws[i]) + UnitVal(ws[i + 1]), 2>>
         ELSE <<TensVal(ws[i]), 1>>
    ELSE IF TeenVal(WordAt(ws, i)) > 0 THEN <<TeenVal(ws[i]), 1>>
    ELSE IF UnitVal(WordAt(ws, i)) > 0 THEN <<UnitVal(ws[i]), 1>>
    ELSE <<0, 0>>

\* A numeral below one thousand starting at word i.
Sub1000(ws, i) ==
    IF UnitVal(WordAt(ws, i)) > 0 /\ WordAt(ws, i + 1) = HundredWord
    THEN LET r == Sub100(ws, i + 2)
         IN  <<100 * UnitVal(ws[i]) + r[1], 2 + r[2]>>
    ELSE Sub100(ws, i)

\* The longest numeral starting at word i.
Numeral(ws, i) ==
    IF WordAt(ws, i) = ZeroWord THEN <<0, 1>>
    ELSE LET a == Sub1000(ws, i)
         IN  IF a[2] > 0 /\ WordAt(ws, i + a[2]) = ThousandWord
             THEN LET b == Sub1000(ws, i + a[2] + 1)
                  IN  <<1000 * a[1] + b[1], a[2] + 1 + b[2]>>
             ELSE a

RECURSIVE DigitString(_)
DigitString(n) ==
    IF n < 10 THEN <<Digits[n + 1]>>
    ELSE DigitString(n \div 10) \o <<Digits[(n % 10) + 1]>>

\* (Here and below an intermediate value is bound as the element of a
\* singleton set, so that it is computed once.)
RECURSIVE ReplaceNumbers(_, _)
ReplaceNumbers(ws, i) ==
    IF i > Len(ws) THEN <<>>
    ELSE CHOOSE r \in
             {IF n[2] > 0
              THEN <<DigitString(n[1])>> \o ReplaceNumbers(ws, i + n[2])
              ELSE <<ws[i]>> \o ReplaceNumbers(ws, i + 1) :
                 n \in {Numeral(ws, i)}} :
             TRUE

\* convert_words_to_numbers: every spoken numeral becomes its digit string.
ConvertWordsToNumbers(s) ==
    CHOOSE r \in {JoinWords(ReplaceNumbers(ws, 1)) : ws \in {SplitWords(s)}} : TRUE

\* Regex \b<pat>\b matches at position i of s.
MatchAt(s, pat, i) ==
    /\ i + Len(pat) - 1 <= Len(s)
    /\ SubSeq(s, i, i + Len(pat) - 1) = pat
    /\ (i = 1 \/ ~IsWordChar(s[i - 1]))
    /\ (i + Len(pat) > Len(s) \/ ~IsWordChar(s[i + Len(pat)]))

\* Regex::replace_all: the leftmost non-overlapping matches, left to right.
RECURSIVE ReplaceFrom(_, _, _, _)
ReplaceFrom(s, pat, rep, i) ==
    IF i > Len(s) THEN <<>>
    ELSE IF MatchAt(s, pat, i)
         THEN rep \o ReplaceFrom(s, pat, rep, i + Len(pat))
         ELSE <<s[i]>> \o ReplaceFrom(s, pat, rep, i + 1)

\* ReplaceAll as Regex::replace would do it: the leftmost match only.
RECURSIVE ReplaceFirstFrom(_, _, _, _)
ReplaceFirstFrom(s, pat, rep, i) ==
    IF i > Len(s) THEN <<>>
    ELSE IF MatchAt(s, pat, i)
         THEN rep \o SubSeq(s, i + Len(pat), Len(s))
         ELSE <<s[i]>> \o ReplaceFirstFrom(s, pat, rep, i + 1)

ReplaceFirst(s, pat, rep) == ReplaceFirstFrom(s, pat, rep, 1)

ReplaceAll(s, pat, rep) == ReplaceFrom(s, pat, rep, 1)

\* The loop over NUMBER_PATTERNS, top to bottom, from rule k on.
RECURSIVE ApplyPatterns(_, _)
ApplyPatterns(s, k) ==
    IF k > Len(NUMBER_PATTERNS) THEN s
    ELSE CHOOSE r \in
             {ApplyPatterns(t, k + 1) :
                 t \in {ReplaceAll(s, NUMBER_PATTERNS[k][1], NUMBER_PATTERNS[k][2])}} :
             TRUE

\* enhance_transcription as it would be with the table run before the
\* numeral conversion.
enhance_transcription_table_first(text) ==
    CHOOSE r \in
        {ConvertWordsToNumbers(t) :
            t \in {ApplyPatterns(l, 1) : l \in {ToLowercase(text)}}} :
        TRUE

enhance_transcription(text) ==
    CHOOSE r \in
        {ApplyPatterns(n, 1) :
            n \in {ConvertWordsToNumbers(l) : l \in {ToLowercase(text)}}} :
        TRUE

\* enhance_transcription on the texts the engine finalizes, computed once.
EnhanceMemo == [t \in FinalTexts |-> enhance_transcription(t)]

Enhanced(text) ==
    IF text \in DOMAIN EnhanceMemo THEN EnhanceMemo[text]
    ELSE enhance_transcription(text)

(***************************************************************************)
(* State.                                                                  *)
(***************************************************************************)

VARIABLES
    threshold,   \* args.confidence_threshold, in hundredths
    debug,       \* args.debug
    no_typing,   \* args.no_typing
    enigo_ok,    \* whether Enigo::new succeeds on this host
    typer,       \* Option<TextTyper>: [present, last_partial]
    alive,       \* the process has not been terminated by the interrupt signal
    task_pc,     \* the processing task: "running" (at recv), "accepting"
                 \* (inside process_audio), "sending", "ended" (its loop
                 \* was left), or "panicked"
    main_pc,     \* main: "loop" (the consumption loop), or returned "ok"/"err"
    produced,    \* number of samples the audio callback has delivered
    pushes,      \* number of audio callback invocations
    audio_q,     \* the audio channel: blocks sent and not yet received
    buffer,      \* the chunker's residual buffer
    pushed,      \* history: all samples the chunker has received, in order
    submitted,   \* history: one record per process_audio call
    result_q,    \* the result channel: results sent and not yet received
    handled,     \* history: one record per result the consumer has handled
    log,         \* the info! lines of the consumption loop
    keys,        \* every keystroke handed to the OS, in order
    inject_failed, \* the positions in keys of the injections the OS refused
    lock,        \* the Mutex around the Recognizer: "free" or "held"
    in_flight,   \* the chunks (by number) the recognizer is working on
    outbox,      \* the result process_audio returned, until it is sent
    fn_name,     \* a function called on its own: which one ("none" in a run)
    fn_in,       \* its argument
    fn_out       \* the values it returned, one per call

vars ==
    <<threshold, debug, no_typing, enigo_ok, typer, alive, task_pc, main_pc,
      produced, pushes, audio_q, buffer, pushed, submitted, result_q, handled,
      log, keys, inject_failed, lock, in_flight, outbox, fn_name, fn_in, fn_out>>

config == <<threshold, debug, no_typing, enigo_ok>>

recognizer_vars == <<lock, in_flight, outbox>>

fn_vars == <<fn_name, fn_in, fn_out>>

pipeline_vars ==
    <<threshold, debug, no_typing, enigo_ok, typer, alive, task_pc, main_pc,
      produced, pushes, audio_q, buffer, pushed, submitted, result_q, handled,
      log, keys, inject_failed, lock, in_flight, outbox>>

(***************************************************************************)
(* Inputs.                                                                 *)
(***************************************************************************)

\* --confidence-threshold: at, below and above the partial marker 0.5.
Thresholds == {0, 50, 70}

\* An f32 sample: q quarters, or not a number.
NaN == [nan |-> TRUE, q |-> 0]

F32(q) == [nan |-> FALSE, q |-> q]

\* The k-th sample (from 0) of the captured stream: values in and out of
\* [-1.0, 1.0], pairwise distinct over a run, and a NaN.
SampleAt(k) == IF k = 3 THEN NaN ELSE F32(((k * 5) % 29) - 14)

\* What the engine answers to one accept_waveform call.
\* words: the conf of each recognized word, when the engine gives them.
EngineOutcomes ==
    {[state |-> "Err"], [state |-> "Failed"]}
        \cup {[state |-> "Finalized", text |-> t, words |-> w] :
                t \in FinalTexts, w \in {<<>>, <<65, 90>>, <<70, 30>>}}
        \cup {[state |-> "Finalized", text |-> <<" ">>, words |-> <<>>]}
        \cup {[state |-> "Running", partial |-> p] : p \in {<<"t", "e">>, <<>>}}

\* What the OS answers to the n injections of one type_text call: which of
\* them return Err. None, or any single one.
InjectFailures(n) == {{}} \cup {{i} : i \in 1..n}

(***************************************************************************)
(* Sample Converter and Chunker.                                           *)
(***************************************************************************)

TruncDiv(a, b) == IF a >= 0 THEN a \div b ELSE -((-a) \div b)

\* SampleToI16 as it would be if the cast did not saturate.
SampleToI16Unsaturated(sample) ==
    IF sample.nan THEN 0 ELSE TruncDiv(sample.q * 32767, 4)

\* (sample * 32767.0) as i16: truncation toward zero, saturating, NaN to 0.
SampleToI16(sample) ==
    IF sample.nan THEN 0
    ELSE LET v == TruncDiv(sample.q * 32767, 4)
         IN  IF v > 32767 THEN 32767 ELSE IF v < -32768 THEN -32768 ELSE v

convert_f32_to_i16(input) == [i \in 1..Len(input) |-> SampleToI16(input[i])]

\* Drain as it would be if the drained range were one sample too long.
DrainDropsOne(buf) ==
    [chunk |-> SubSeq(buf, 1, BUFFER_SIZE),
     rest  |-> SubSeq(buf, BUFFER_SIZE + 2, Len(buf))]

\* Drain as it would be if the whole buffer were drained: drain(..).
DrainAll(buf) == [chunk |-> buf, rest |-> <<>>]

\* buffer.drain(..BUFFER_SIZE).collect(): the chunk, and what stays buffered.
Drain(buf) ==
    [chunk |-> SubSeq(buf, 1, BUFFER_SIZE),
     rest  |-> SubSeq(buf, BUFFER_SIZE + 1, Len(buf))]

(***************************************************************************)
(* Recognition Adapter.                                                    *)
(***************************************************************************)

\* process_audio as it would be without the two trim().is_empty() tests.
process_audio_keeps_blank(o) ==
    IF o.state = "Err" THEN [tag |-> "Err"]
    ELSE IF o.state = "Finalized"
    THEN [tag |-> "Some",
          result |-> [text |-> o.text,
                      confidence |-> IF o.words = <<>> THEN 80 ELSE o.words[1],
                      is_final |-> TRUE]]
    ELSE IF o.state = "Running"
    THEN [tag |-> "Some",
          result |-> [text |-> o.partial, confidence |-> 50, is_final |-> FALSE]]
    ELSE [tag |-> "None"]

\* process_audio as it would be with its two constants written in percent.
process_audio_percent(o) ==
    IF o.state = "Err" THEN [tag |-> "Err"]
    ELSE IF o.state = "Finalized" /\ ~IsBlank(o.text)
    THEN [tag |-> "Some",
          result |-> [text |-> o.text,
                      confidence |-> IF o.words = <<>> THEN 8000 ELSE o.words[1],
                      is_final |-> TRUE]]
    ELSE IF o.state = "Running" /\ ~IsBlank(o.partial)
    THEN [tag |-> "Some",
          result |-> [text |-> o.partial, confidence |-> 5000, is_final |-> FALSE]]
    ELSE [tag |-> "None"]

\* AudioProcessor::process_audio, given the engine's answer o.
process_audio(o) ==
    IF o.state = "Err" THEN [tag |-> "Err"]
    ELSE IF o.state = "Finalized" /\ ~IsBlank(o.text)
    THEN [tag |-> "Some",
          result |-> [text |-> o.text,
                      confidence |-> IF o.words = <<>> THEN 80 ELSE o.words[1],
                      is_final |-> TRUE]]
    ELSE IF o.state = "Running" /\ ~IsBlank(o.partial)
    THEN [tag |-> "Some",
          result |-> [text |-> o.partial, confidence |-> 50, is_final |-> FALSE]]
    ELSE [tag |-> "None"]

\* Enqueue as it would be on a channel that hands out the newest item first.
EnqueueFront(q, e) == <<e>> \o q

\* result_tx.send on the unbounded channel.
Enqueue(q, e) == Append(q, e)

\* TaskPcAfter as it would be if the Err arm also broke out of the loop.
TaskPcAfterStopsOnErr(r, send_ok) ==
    IF (r.tag = "Some" /\ ~send_ok) \/ r.tag = "Err" THEN "ended" ELSE "running"

\* Where the task's loop stands after one process_audio call: only a failed
\* send (the receiver is gone) breaks out of it.
TaskPcAfter(r, send_ok) ==
    IF r.tag = "Some" /\ ~send_ok THEN "ended" ELSE "running"

\* LockAfter as it would be if the guard outlived the early return of `?`.
LockAfterLeakOnErr(r) == IF r.tag = "Err" THEN "held" ELSE "free"

\* The Mutex when process_audio has returned r: the MutexGuard is a local of
\* process_audio, dropped on each of its returns, the `?` one included.
LockAfter(r) == "free"

\* JoinOutcome as it would be if the JoinHandle's result were dropped:
\* let _ = processor_handle.await;
JoinOutcomeDropped(pc) == "ok"

\* processor_handle.await? followed by Ok(()): a task that panicked gives a
\* JoinError, which `?` returns from main.
JoinOutcome(pc) == IF pc = "panicked" THEN "err" ELSE "ok"

(***************************************************************************)
(* Confidence Gate and Typing Emitter.                                     *)
(***************************************************************************)

\* Accept as it would be with > in place of >=.
AcceptStrict(result, thr) == result.is_final /\ result.confidence > thr

\* main's gate: result.is_final && result.confidence >= threshold
Accept(result, thr) == result.is_final /\ result.confidence >= thr

Backspace == [key |-> "Backspace"]

Space == [key |-> "Space"]

TextKey(t) == [key |-> "Text", text |-> t]

\* TextTyper::clear_partial_text: one backspace per byte of last_partial.
clear_partial_text(last_partial) == [i \in 1..ByteLen(last_partial) |-> Backspace]

\* type_text as it would be if the text typed were remembered in
\* last_partial instead of last_partial being cleared.
type_text_tracks_typed(last_partial, result, thr) ==
    IF result.confidence < thr THEN [keys |-> <<>>, last_partial |-> last_partial]
    ELSE IF result.is_final
    THEN [keys |-> (IF last_partial # <<>> THEN clear_partial_text(last_partial) ELSE <<>>)
                     \o <<TextKey(result.text), Space>>,
          last_partial |-> result.text]
    ELSE [keys |-> <<>>, last_partial |-> last_partial]

\* type_text as it would be without the Key::Space click.
type_text_no_space(last_partial, result, thr) ==
    IF result.confidence < thr THEN [keys |-> <<>>, last_partial |-> last_partial]
    ELSE IF result.is_final
    THEN [keys |-> (IF last_partial # <<>> THEN clear_partial_text(last_partial) ELSE <<>>)
                     \o <<TextKey(result.text)>>,
          last_partial |-> <<>>]
    ELSE [keys |-> <<>>, last_partial |-> last_partial]

\* TextTyper::type_text: the keystrokes it sends and the last_partial it leaves.
type_text(last_partial, result, thr) ==
    IF result.confidence < thr THEN [keys |-> <<>>, last_partial |-> last_partial]
    ELSE IF result.is_final
    THEN [keys |-> (IF last_partial # <<>> THEN clear_partial_text(last_partial) ELSE <<>>)
                     \o <<TextKey(result.text), Space>>,
          last_partial |-> <<>>]
    ELSE [keys |-> <<>>, last_partial |-> last_partial]

\* What is logged for the injections of one call that returned Err: the
\* Result of enigo.text and enigo.key is discarded (let _ =).
InjectionLogged(failed) == <<>>

\* CreateTyper as it would be if args.no_typing were not consulted.
CreateTyperIgnoresFlag(flag, ok) == [present |-> ok, last_partial |-> <<>>]

\* main's "Create text typer": None when typing is off or Enigo::new fails.
CreateTyper(flag, ok) == [present |-> ~flag /\ ok, last_partial |-> <<>>]

\* The accepted arm of the loop body (main.rs:777-787): normalize, log,
\* and type if there is a typer. tp is the typer, Option<TextTyper>.
HandleAccepted(r, tp, thr) ==
    CHOOSE h \in
        {LET arg == [text |-> enhanced_text,
                     confidence |-> r.confidence,
                     is_final |-> r.is_final]
             out == IF tp.present
                    THEN type_text(tp.last_partial, arg, thr)
                    ELSE [keys |-> <<>>, last_partial |-> tp.last_partial]
         IN  [normalizer |-> <<r.text>>,
              emitter |-> IF tp.present THEN <<arg>> ELSE <<>>,
              keys |-> out.keys,
              last_partial |-> out.last_partial,
              logged |-> << [kind |-> "transcription",
                             confidence |-> r.confidence,
                             text |-> enhanced_text] >>] :
            enhanced_text \in {Enhanced(r.text)}} :
        TRUE

\* The other arm (main.rs:788-790): a partial is logged in debug mode.
HandleRejected(r, tp, dbg) ==
    [normalizer |-> <<>>,
     emitter |-> <<>>,
     keys |-> <<>>,
     last_partial |-> tp.last_partial,
     logged |-> IF dbg /\ ~r.is_final
                THEN << [kind |-> "partial", text |-> r.text] >>
                ELSE <<>>]

\* HandleResult as it would be if partial results were typed live: a partial
\* at or above the threshold retracts the partial shown, is typed, and is
\* tracked.
HandleResultTypingPartials(r, tp, thr, dbg) ==
    IF Accept(r, thr) THEN HandleAccepted(r, tp, thr)
    ELSE IF ~r.is_final /\ r.confidence >= thr /\ tp.present
    THEN [normalizer |-> <<>>,
          emitter |-> <<r>>,
          keys |-> clear_partial_text(tp.last_partial) \o <<TextKey(r.text)>>,
          last_partial |-> r.text,
          logged |-> <<>>]
    ELSE HandleRejected(r, tp, dbg)

\* The body of the consumption loop (main.rs:776-790) for one result: what
\* is passed to the normalizer and to the emitter, the keystrokes sent, the
\* last_partial left, and the lines logged.
HandleResult(r, tp, thr, dbg) ==
    IF Accept(r, thr) THEN HandleAccepted(r, tp, thr)
    ELSE HandleRejected(r, tp, dbg)

(***************************************************************************)
(* The program.                                                            *)
(***************************************************************************)

Init ==
    /\ threshold \in Thresholds
    /\ debug \in BOOLEAN
    /\ no_typing \in BOOLEAN
    /\ enigo_ok \in BOOLEAN
    /\ typer = CreateTyper(no_typing, enigo_ok)
    /\ alive = TRUE
    /\ task_pc = "running"
    /\ main_pc = "loop"
    /\ produced = 0
    /\ pushes = 0
    /\ audio_q = <<>>
    /\ buffer = <<>>
    /\ pushed = <<>>
    /\ submitted = <<>>
    /\ result_q = <<>>
    /\ handled = <<>>
    /\ log = <<>>
    /\ keys = <<>>
    /\ inject_failed = {}
    /\ lock = "free"
    /\ in_flight = <<>>
    /\ outbox = <<>>
    /\ fn_name = "none"
    /\ fn_in = <<>>
    /\ fn_out = <<>>

\* The cpal input callback: tx.send(data.to_vec()).
AudioCallback ==
    /\ alive
    /\ pushes < MaxPushes
    /\ \E n \in BlockLens :
          /\ audio_q' = IF task_pc \notin {"ended", "panicked"}
                        THEN Append(audio_q, [i \in 1..n |-> SampleAt(produced + i - 1)])
                        ELSE audio_q
          /\ produced' = produced + n
    /\ pushes' = pushes + 1
    /\ UNCHANGED <<config, fn_vars, main_pc, typer, alive, task_pc, buffer, pushed, submitted,
                   result_q, handled, log, keys, inject_failed, recognizer_vars>>

\* ProcessTask as it would be with `while buffer.len() >= BUFFER_SIZE`: a
\* second chunk is drained and submitted in the same iteration when the
\* buffer still holds one.
ProcessTaskDrainsAgain ==
    /\ alive
    /\ task_pc = "running"
    /\ audio_q # <<>>
    /\ audio_q' = Tail(audio_q)
    /\ pushed' = pushed \o Head(audio_q)
    /\ LET extended == buffer \o Head(audio_q)
       IN  IF Len(extended) >= BUFFER_SIZE
           THEN \E o \in EngineOutcomes :
                  LET d == Drain(extended)
                      r == process_audio(o)
                      first == Append(submitted,
                                   [chunk |-> d.chunk,
                                    i16_chunk |-> convert_f32_to_i16(d.chunk),
                                    tag |-> r.tag])
                      again == Len(d.rest) >= BUFFER_SIZE
                      d2 == Drain(d.rest)
                  IN  /\ buffer' = IF again THEN d2.rest ELSE d.rest
                      /\ submitted' =
                            IF again
                            THEN Append(first,
                                     [chunk |-> d2.chunk,
                                      i16_chunk |-> convert_f32_to_i16(d2.chunk),
                                      tag |-> "None"])
                            ELSE first
                      /\ result_q' = IF r.tag = "Some"
                                     THEN Enqueue(result_q,
                                              [res |-> r.result,
                                               chunk |-> Len(submitted) + 1])
                                     ELSE result_q
                      /\ task_pc' = TaskPcAfter(r, alive)
           ELSE /\ buffer' = extended
                /\ UNCHANGED <<submitted, result_q, task_pc>>
    /\ UNCHANGED <<config, fn_vars, main_pc, typer, alive, produced, pushes,
                   handled, log, keys, inject_failed, recognizer_vars>>

\* One iteration of the processing task's loop: receive a block, extend the
\* buffer, and if it holds a chunk, drain one, convert it, submit it and
\* send the result.
ProcessTask ==
    /\ alive
    /\ task_pc = "running"
    /\ audio_q # <<>>
    /\ audio_q' = Tail(audio_q)
    /\ pushed' = pushed \o Head(audio_q)
    /\ LET extended == buffer \o Head(audio_q)
       IN  IF Len(extended) >= BUFFER_SIZE
           THEN \E o \in EngineOutcomes :
                  LET d == Drain(extended)
                      i16_chunk == convert_f32_to_i16(d.chunk)
                      r == process_audio(o)
                  IN  /\ buffer' = d.rest
                      /\ submitted' = Append(submitted,
                             [chunk |-> d.chunk, i16_chunk |-> i16_chunk,
                              tag |-> r.tag])
                      /\ result_q' = IF r.tag = "Some"
                                     THEN Enqueue(result_q,
                                              [res |-> r.result,
                                               chunk |-> Len(submitted) + 1])
                                     ELSE result_q
                      \* result_rx lives in main until the process ends,
                      \* so the send succeeds
                      /\ task_pc' = TaskPcAfter(r, alive)
           ELSE /\ buffer' = extended
                /\ UNCHANGED <<submitted, result_q, task_pc>>
    /\ UNCHANGED <<config, fn_vars, main_pc, typer, alive, produced, pushes, handled, log, keys,
                   inject_failed, recognizer_vars>>

\* One iteration of main's consumption loop:
\* while let Some(result) = result_rx.recv().await { ... }
Consume ==
    /\ alive
    /\ main_pc = "loop"
    /\ result_q # <<>>
    /\ result_q' = Tail(result_q)
    /\ \E e \in {Head(result_q)} :
       \E h \in {HandleResult(e.res, typer, threshold, debug)} :
       \E failed \in InjectFailures(Len(h.keys)) :
           /\ log' = log \o h.logged \o InjectionLogged(failed)
           /\ keys' = keys \o h.keys
           /\ inject_failed' = inject_failed \cup {Len(keys) + i : i \in failed}
           /\ typer' = [typer EXCEPT !.last_partial = h.last_partial]
           /\ handled' = Append(handled,
                  [chunk |-> e.chunk, res |-> e.res,
                   normalizer |-> h.normalizer, emitter |-> h.emitter,
                   partial_before |-> typer.last_partial, keys |-> h.keys])
    /\ UNCHANGED <<config, fn_vars, main_pc, alive, task_pc, produced, pushes, audio_q, buffer,
                   pushed, submitted, recognizer_vars>>

\* The interrupt signal. No handler is installed, so the default disposition
\* applies: the process is terminated wherever its threads stand.
Interrupt ==
    /\ alive
    /\ alive' = FALSE
    /\ UNCHANGED <<config, fn_vars, main_pc, typer, task_pc, produced, pushes, audio_q, buffer,
                   pushed, submitted, result_q, handled, log, keys,
                   inject_failed, recognizer_vars>>

Next ==
    \/ AudioCallback
    \/ ProcessTask
    \/ Consume
    \/ Interrupt

Spec == Init /\ [][Next]_vars

(***************************************************************************)
(* The same program with the ways it can end: the processing task may      *)
(* panic, which drops its ends of both channels, and main leaves its loop  *)
(* when the result channel is closed and empty.                            *)
(***************************************************************************)

\* The processing task panics (taken between two iterations of its loop):
\* tokio drops the task, with it audio_rx and result_tx, and keeps the
\* panic for the JoinHandle.
TaskPanic ==
    /\ alive
    /\ main_pc = "loop"
    /\ task_pc = "running"
    /\ task_pc' = "panicked"
    /\ audio_q' = <<>>
    /\ UNCHANGED <<config, fn_vars, main_pc, typer, alive, produced, pushes,
                   buffer, pushed, submitted, result_q, handled, log, keys,
                   inject_failed, recognizer_vars>>

\* result_rx.recv() returns None: the channel is empty and its sender is
\* gone. main leaves the loop, awaits the JoinHandle and returns.
MainExit ==
    /\ alive
    /\ main_pc = "loop"
    /\ result_q = <<>>
    /\ task_pc \in {"ended", "panicked"}
    /\ main_pc' = JoinOutcome(task_pc)
    /\ UNCHANGED <<config, fn_vars, typer, alive, task_pc, produced, pushes,
                   audio_q, buffer, pushed, submitted, result_q, handled, log,
                   keys, inject_failed, recognizer_vars>>

NextExit ==
    \/ AudioCallback
    \/ ProcessTask
    \/ TaskPanic
    \/ Consume
    \/ MainExit
    \/ Interrupt

SpecExit == Init /\ [][NextExit]_vars

(***************************************************************************)
(* The same program with the iteration of the processing task taken in     *)
(* steps: up to the engine call, the return of process_audio, the send.    *)
(* The audio callback, the consumption loop and the interrupt run between  *)
(* the steps.                                                              *)
(***************************************************************************)

\* TaskReceive as it would be if each chunk were handed to a worker of its
\* own on an unguarded recognizer, the loop going back to recv at once.
TaskReceiveUnserialized ==
    /\ alive
    /\ task_pc \in {"running", "accepting"}
    /\ audio_q # <<>>
    /\ audio_q' = Tail(audio_q)
    /\ pushed' = pushed \o Head(audio_q)
    /\ LET extended == buffer \o Head(audio_q)
       IN  IF Len(extended) >= BUFFER_SIZE
           THEN LET d == Drain(extended)
                IN  /\ buffer' = d.rest
                    /\ submitted' = Append(submitted,
                           [chunk |-> d.chunk,
                            i16_chunk |-> convert_f32_to_i16(d.chunk),
                            tag |-> "Pending"])
                    /\ in_flight' = Append(in_flight, Len(submitted) + 1)
                    /\ task_pc' = "accepting"
                    /\ UNCHANGED lock
           ELSE /\ buffer' = extended
                /\ UNCHANGED <<submitted, in_flight, lock, task_pc>>
    /\ UNCHANGED <<config, fn_vars, main_pc, typer, alive, produced, pushes, result_q, handled,
                   log, keys, inject_failed, outbox>>

\* recv, extend, and when the buffer holds a chunk: drain, convert, enter
\* process_audio, take the lock and call accept_waveform.
TaskReceive ==
    /\ alive
    /\ task_pc = "running"
    /\ audio_q # <<>>
    /\ audio_q' = Tail(audio_q)
    /\ pushed' = pushed \o Head(audio_q)
    /\ LET extended == buffer \o Head(audio_q)
       IN  IF Len(extended) >= BUFFER_SIZE
           THEN LET d == Drain(extended)
                IN  /\ lock = "free"
                    /\ lock' = "held"
                    /\ buffer' = d.rest
                    /\ submitted' = Append(submitted,
                           [chunk |-> d.chunk,
                            i16_chunk |-> convert_f32_to_i16(d.chunk),
                            tag |-> "Pending"])
                    /\ in_flight' = Append(in_flight, Len(submitted) + 1)
                    /\ task_pc' = "accepting"
           ELSE /\ buffer' = extended
                /\ UNCHANGED <<submitted, in_flight, lock, task_pc>>
    /\ UNCHANGED <<config, fn_vars, main_pc, typer, alive, produced, pushes, result_q, handled,
                   log, keys, inject_failed, outbox>>

\* accept_waveform answers and process_audio returns: the guard is dropped,
\* and the match in the task picks its arm.
TaskReturn ==
    /\ alive
    /\ task_pc = "accepting"
    /\ in_flight # <<>>
    /\ \E o \in EngineOutcomes :
          LET r == process_audio(o)
              k == Head(in_flight)
          IN  /\ submitted' = [submitted EXCEPT ![k].tag = r.tag]
              /\ in_flight' = Tail(in_flight)
              /\ lock' = LockAfter(r)
              /\ IF r.tag = "Some"
                 THEN /\ outbox' = << [res |-> r.result, chunk |-> k] >>
                      /\ task_pc' = "sending"
                 ELSE /\ outbox' = <<>>
                      /\ task_pc' = TaskPcAfter(r, alive)
    /\ UNCHANGED <<config, fn_vars, main_pc, typer, alive, produced, pushes, audio_q, buffer,
                   pushed, result_q, handled, log, keys, inject_failed>>

\* result_tx.send(result), and back to recv.
TaskSend ==
    /\ alive
    /\ task_pc = "sending"
    /\ result_q' = Enqueue(result_q, outbox[1])
    /\ outbox' = <<>>
    /\ task_pc' = TaskPcAfter([tag |-> "Some"], alive)
    /\ UNCHANGED <<config, fn_vars, main_pc, typer, alive, produced, pushes, audio_q, buffer,
                   pushed, submitted, handled, log, keys, inject_failed, lock,
                   in_flight>>

NextSteps ==
    \/ AudioCallback
    \/ TaskReceive
    \/ TaskReturn
    \/ TaskSend
    \/ Consume
    \/ Interrupt

SpecSteps == Init /\ [][NextSteps]_vars

(***************************************************************************)
(* The Typing Emitter on its own: type_text called on a TextTyper whose    *)
(* tracked partial text is any string, with any result and threshold.      *)
(***************************************************************************)

Hello == <<"h", "e", "l", "l", "o">>

\* Tracked partial texts: empty, five ASCII characters, one two-byte
\* character, a three-byte character followed by an ASCII one.
TrackedPartials == {<<>>, Hello, <<"U+00E9">>, <<"U+4F60", "a">>}

EmitterInputs ==
    {[text |-> <<"1", "0", " ", ".">>, confidence |-> c, is_final |-> TRUE] :
        c \in {65, 70, 80}}
        \cup {[text |-> <<"t", "e">>, confidence |-> 50, is_final |-> FALSE]}

InitTyper ==
    /\ threshold \in Thresholds
    /\ debug = FALSE
    /\ no_typing = FALSE
    /\ enigo_ok = TRUE
    /\ typer \in {[present |-> TRUE, last_partial |-> p] : p \in TrackedPartials}
    /\ alive = TRUE
    /\ task_pc = "running"
    /\ main_pc = "loop"
    /\ produced = 0
    /\ pushes = 0
    /\ audio_q = <<>>
    /\ buffer = <<>>
    /\ pushed = <<>>
    /\ submitted = <<>>
    /\ result_q = <<>>
    /\ handled = <<>>
    /\ log = <<>>
    /\ keys = <<>>
    /\ inject_failed = {}
    /\ lock = "free"
    /\ in_flight = <<>>
    /\ outbox = <<>>
    /\ fn_name = "none"
    /\ fn_in = <<>>
    /\ fn_out = <<>>

\* One call typer.type_text(&result, threshold).
TypeTextCall ==
    /\ Len(handled) < MaxCalls
    /\ \E r \in EmitterInputs :
          LET out == type_text(typer.last_partial, r, threshold)
          IN  \E failed \in InjectFailures(Len(out.keys)) :
              /\ keys' = keys \o out.keys
              /\ inject_failed' = inject_failed \cup {Len(keys) + i : i \in failed}
              /\ log' = log \o InjectionLogged(failed)
              /\ typer' = [typer EXCEPT !.last_partial = out.last_partial]
              /\ handled' = Append(handled,
                     [chunk |-> 0, res |-> r, normalizer |-> <<>>,
                      emitter |-> <<r>>, partial_before |-> typer.last_partial,
                      keys |-> out.keys])
    /\ UNCHANGED <<config, fn_vars, main_pc, alive, task_pc, produced, pushes, audio_q, buffer,
                   pushed, submitted, result_q, recognizer_vars>>

NextTyper == TypeTextCall

SpecTyper == InitTyper /\ [][NextTyper]_vars

(***************************************************************************)
(* The pure functions on their own: one of them is called on an argument   *)
(* drawn from its input set, the normalizer then again on what it          *)
(* returned.                                                               *)
(***************************************************************************)

\* "<d> thousand" and "<d> hundred", d in one..nine.
MultiWordPhrases ==
    {UnitWords[d] \o <<" ">> \o w : d \in 1..9, w \in {ThousandWord, HundredWord}}

\* The phrases of the table.
TablePhrases == {NUMBER_PATTERNS[k][1] : k \in 1..Len(NUMBER_PATTERNS)}

\* Phrases put side by side: a digit, a teen, a multi-word number, and some
\* programming terms.
PairParts ==
    {DigitRules[2][1], TeenRules[1][1], TensRules[2][1], ComplexRules[1][1],
     HundredRules[2][1], TermRules[4][1], TermRules[5][1], TermRules[11][1],
     TermRules[12][1], TermRules[14][1], TermRules[17][1]}

\* A compound numeral, alone and inside a dictated line of code.
CompoundNumeral ==
    <<"o", "n", "e", " ", "h", "u", "n", "d", "r", "e", "d", " ", "t", "w",
      "e", "n", "t", "y", " ", "t", "h", "r", "e", "e">>

DictatedLine ==
    <<"w", "e", " ", "n", "e", "e", "d", " ", "o", "n", "e", " ", "h", "u",
      "n", "d", "r", "e", "d", " ", "t", "w", "e", "n", "t", "y", " ", "t",
      "h", "r", "e", "e", " ", "o", "p", "e", "n", " ", "p", "a", "r", "e",
      "n", " ", "x", " ", "c", "o", "m", "m", "a", " ", "y", " ", "c", "l",
      "o", "s", "e", " ", "p", "a", "r", "e", "n", " ", "e", "q", "u", "a",
      "l", "s", " ", "z", "e", "r", "o">>

\* Texts built from the table's phrases, plain digits and symbols, a
\* capitalized phrase, and the compound numeral.
NormalizerInputs ==
    TablePhrases
        \cup {x \o <<" ">> \o y : x \in PairParts, y \in TablePhrases}
        \cup {x \o <<" ">> \o y : x \in TablePhrases, y \in PairParts}
        \cup {CompoundNumeral, DictatedLine}
        \cup {<<"1", "0", "0", "0">>, <<"(">>, TenDot,
              <<"O", "n", "e", " ", "T", "h", "o", "u", "s", "a", "n", "d">>}

\* Samples within [-1.0, 1.0], at its ends, outside it, far outside it, and
\* a NaN.
SampleValues ==
    {NaN, F32(0), F32(1), F32(-3), F32(4), F32(-4), F32(6), F32(-8),
     F32(60000), F32(-60000)}

RECURSIVE SeqsUpTo(_, _)
SeqsUpTo(S, n) ==
    IF n = 0 THEN {<<>>}
    ELSE LET shorter == SeqsUpTo(S, n - 1)
         IN  shorter \cup {Append(q, x) : q \in shorter, x \in S}

ConverterInputs == SeqsUpTo(SampleValues, MaxSamples)

\* Texts the engine may hand back: words, blanks of several lengths, and
\* words with blanks around them.
AdapterTexts ==
    {TenDot, <<"t", "e">>, <<>>, <<" ">>, <<" ", " ">>, <<" ", "a", " ">>}

\* The conf of the words of a final result, when the engine gives them.
AdapterWordScores == {<<>>, <<65, 90>>, <<70, 30>>, <<0>>, <<100, 50>>, <<81>>}

\* The answers of the engine to one accept_waveform call, over all of its
\* decoding states.
AdapterInputs ==
    {[state |-> "Err"], [state |-> "Failed"]}
        \cup {[state |-> "Finalized", text |-> t, words |-> w] :
                t \in AdapterTexts, w \in AdapterWordScores}
        \cup {[state |-> "Running", partial |-> t] : t \in AdapterTexts}

InitFn ==
    /\ threshold = 70
    /\ debug = FALSE
    /\ no_typing = FALSE
    /\ enigo_ok = TRUE
    /\ typer = CreateTyper(no_typing, enigo_ok)
    /\ alive = TRUE
    /\ task_pc = "running"
    /\ main_pc = "loop"
    /\ produced = 0
    /\ pushes = 0
    /\ audio_q = <<>>
    /\ buffer = <<>>
    /\ pushed = <<>>
    /\ submitted = <<>>
    /\ result_q = <<>>
    /\ handled = <<>>
    /\ log = <<>>
    /\ keys = <<>>
    /\ inject_failed = {}
    /\ lock = "free"
    /\ in_flight = <<>>
    /\ outbox = <<>>
    /\ fn_out = <<>>
    /\ \/ fn_name = "enhance_transcription" /\ fn_in \in NormalizerInputs
       \/ fn_name = "NUMBER_PATTERNS" /\ fn_in \in NormalizerInputs
       \/ fn_name = "convert_f32_to_i16" /\ fn_in \in ConverterInputs
       \/ fn_name = "process_audio" /\ fn_in \in AdapterInputs

\* enhance_transcription(text), on the argument and then on its own output.
CallEnhance ==
    /\ fn_name = "enhance_transcription"
    /\ Len(fn_out) < MaxRuns
    /\ \E text \in {IF fn_out = <<>> THEN fn_in ELSE fn_out[Len(fn_out)]} :
       \E out \in {enhance_transcription(text)} :
           fn_out' = Append(fn_out, out)
    /\ UNCHANGED <<pipeline_vars, fn_name, fn_in>>

\* The loop over the table alone (main.rs:659-661).
CallPatternLoop ==
    /\ fn_name = "NUMBER_PATTERNS"
    /\ fn_out = <<>>
    /\ \E out \in {ApplyPatterns(fn_in, 1)} : fn_out' = <<out>>
    /\ UNCHANGED <<pipeline_vars, fn_name, fn_in>>

\* convert_f32_to_i16(input)
CallConvert ==
    /\ fn_name = "convert_f32_to_i16"
    /\ fn_out = <<>>
    /\ fn_out' = <<convert_f32_to_i16(fn_in)>>
    /\ UNCHANGED <<pipeline_vars, fn_name, fn_in>>

\* processor.process_audio(&i16_chunk), the engine answering fn_in.
CallProcessAudio ==
    /\ fn_name = "process_audio"
    /\ fn_out = <<>>
    /\ fn_out' = <<process_audio(fn_in)>>
    /\ UNCHANGED <<pipeline_vars, fn_name, fn_in>>

NextFn ==
    \/ CallEnhance
    \/ CallPatternLoop
    \/ CallConvert
    \/ CallProcessAudio

SpecFn == InitFn /\ [][NextFn]_vars

(***************************************************************************)
(* Properties.                                                             *)
(***************************************************************************)

RECURSIVE FlattenFrom(_, _)
FlattenFrom(ss, i) == IF i > Len(ss) THEN <<>> ELSE ss[i] \o FlattenFrom(ss, i + 1)

\* The concatenation of a sequence of sequences.
Flatten(ss) == FlattenFrom(ss, 1)

\* The gate's condition, as the specification states it.
Gated(h) == h.res.is_final /\ h.res.confidence >= threshold

ChunksF32 == [k \in 1..Len(submitted) |-> submitted[k].chunk]

ChunksI16 == [k \in 1..Len(submitted) |-> submitted[k].i16_chunk]

\* The chunks that yielded a result, in submission order.
Yielded == SelectSeq([k \in 1..Len(submitted) |-> k],
                     LAMBDA k : submitted[k].tag = "Some")

HandledKeys == [i \in 1..Len(handled) |-> handled[i].keys]

IsTranscription(l) == l.kind = "transcription"

\* C1: a dequeued result reaches the normalizer and the typing emitter if and
\* only if it is final and its confidence is at least the threshold
\* (equality included); a rejected result causes no normalizer call and no
\* keystroke.
C1_GateIff ==
    \A i \in 1..Len(handled) :
        LET h == handled[i]
        IN  /\ Len(h.normalizer) <= 1
            /\ Len(h.emitter) <= 1
            /\ (Len(h.normalizer) = 1) <=> Gated(h)
            /\ typer.present => ((Len(h.emitter) = 1) <=> Gated(h))
            /\ (typer.present /\ Gated(h)) => h.keys # <<>>
            /\ ~Gated(h) => (h.normalizer = <<>> /\ h.emitter = <<>> /\ h.keys = <<>>)

C1_Witness ==
    /\ typer.present
    /\ \E i \in 1..Len(handled) :
          /\ handled[i].res.is_final
          /\ handled[i].res.confidence = threshold
          /\ handled[i].keys # <<>>
    /\ \E j \in 1..Len(handled) :
          /\ handled[j].res.is_final
          /\ handled[j].res.confidence < threshold
          /\ handled[j].keys = <<>>

\* C2: whatever the threshold, a non-final result never causes a keystroke,
\* after any earlier results: every keystroke sent so far belongs to a final
\* result.
C2_PartialNeverTyped ==
    /\ \A i \in 1..Len(handled) :
          ~handled[i].res.is_final => (handled[i].keys = <<>> /\ handled[i].emitter = <<>>)
    /\ keys = Flatten(HandledKeys)

C2_Witness ==
    /\ typer.present
    /\ threshold <= 50
    /\ Len(handled) = 2
    /\ handled[1].res.is_final
    /\ handled[1].keys # <<>>
    /\ ~handled[2].res.is_final
    /\ handled[2].res.confidence >= threshold
    /\ keys = handled[1].keys

\* C3 (as claimed): whenever the samples pushed so far add up to a multiple
\* of the chunk size, the chunks submitted are all of them, in order, and
\* nothing is left buffered.
C3_MultipleOfChunkFlushed ==
    (Len(pushed) % BUFFER_SIZE = 0) =>
        /\ buffer = <<>>
        /\ Flatten(ChunksI16) = convert_f32_to_i16(pushed)

\* C4: the chunks emitted so far followed by the residual buffer are exactly
\* the samples pushed so far, in push order.
C4_NoSampleLost ==
    /\ Flatten(ChunksF32) \o buffer = pushed
    /\ Flatten(ChunksI16) \o convert_f32_to_i16(buffer) = convert_f32_to_i16(pushed)

C4_Witness ==
    /\ Len(submitted) >= 2
    /\ buffer # <<>>
    /\ audio_q = <<>>

\* C5: results are handled in the order their chunks were submitted, none
\* twice and none skipped: the chunks of the handled results followed by those
\* of the queued results are the chunks that yielded a result, in order.
C5_ResultsInChunkOrder ==
    [i \in 1..Len(handled) |-> handled[i].chunk]
        \o [i \in 1..Len(result_q) |-> result_q[i].chunk] = Yielded

C5_Witness ==
    /\ Len(handled) = 2
    /\ handled[1].chunk < handled[2].chunk
    /\ result_q = <<>>

\* C6 (as claimed): when the process has exited on the interrupt signal, no
\* result is left in the result queue.
C6_QueueDrainedAtExit == ~alive => result_q = <<>>

\* C7 (as claimed): a gated final result handled while the tracked partial
\* text has n > 0 characters sends exactly n backspaces, then the text, then
\* one space.
C7_OneBackspacePerChar ==
    \A i \in 1..Len(handled) :
        LET h == handled[i]
            n == Len(h.partial_before)
        IN  (Gated(h) /\ h.emitter # <<>> /\ n > 0) =>
                h.keys = [j \in 1..n |-> Backspace] \o <<TextKey(h.res.text), Space>>

\* C8: with typing enabled, each accepted final result sends its normalized
\* text once, then one space; the keystrokes of the results follow each other
\* in dequeue order, and the tracked partial text is empty afterwards.
C8_TextThenOneSpace ==
    /\ \A i \in 1..Len(handled) :
          (typer.present /\ Gated(handled[i])) =>
              handled[i].keys = <<TextKey(Enhanced(handled[i].res.text)), Space>>
    /\ keys = Flatten(HandledKeys)
    /\ typer.last_partial = <<>>

C8_Witness ==
    /\ typer.present
    /\ Len(handled) = 2
    /\ Gated(handled[1])
    /\ Gated(handled[2])
    /\ Len(keys) = 4

\* C9: a chunk on which the engine call fails yields no result, and the
\* processing loop is still running afterwards.
C9_EngineErrorNotFatal ==
    /\ \A k \in 1..Len(submitted) :
          submitted[k].tag = "Err" =>
              /\ \A i \in 1..Len(result_q) : result_q[i].chunk # k
              /\ \A i \in 1..Len(handled) : handled[i].chunk # k
    /\ (\E k \in 1..Len(submitted) : submitted[k].tag = "Err") => task_pc = "running"
    /\ (alive /\ audio_q # <<>>) => ENABLED ProcessTask

C9_Witness ==
    \E k, j \in 1..Len(submitted) :
        /\ k < j
        /\ submitted[k].tag = "Err"
        /\ submitted[j].tag = "Some"
        /\ \E i \in 1..Len(result_q) : result_q[i].chunk = j

\* C10: when typing is switched off or the injection capability cannot be
\* created, no keystroke is ever sent, and every accepted result is still
\* normalized and logged.
C10_TranscriptOnly ==
    (no_typing \/ ~enigo_ok) =>
        /\ keys = <<>>
        /\ \A i \in 1..Len(handled) :
              /\ handled[i].keys = <<>>
              /\ handled[i].emitter = <<>>
              /\ (Len(handled[i].normalizer) = 1) <=> Gated(handled[i])
        /\ LET tl == SelectSeq(log, IsTranscription)
               ah == SelectSeq(handled, Gated)
           IN  /\ Len(tl) = Len(ah)
               /\ \A j \in 1..Len(tl) :
                     /\ tl[j].text = Enhanced(ah[j].res.text)
                     /\ tl[j].confidence = ah[j].res.confidence

C10_Witness ==
    /\ ~no_typing
    /\ ~enigo_ok
    /\ Len(handled) = 2
    /\ Gated(handled[1])
    /\ ~Gated(handled[2])
    /\ Len(log) >= 1

\* C11 (as claimed): every injection the OS refused has its line in the log,
\* the keystrokes of that result are all still attempted, and results
\* handled later are typed as usual.
C11_InjectionFailureLogged ==
    /\ Len(SelectSeq(log, LAMBDA l : l.kind = "injection_error"))
           = Cardinality(inject_failed)
    /\ keys = Flatten(HandledKeys)
    /\ \A i \in 1..Len(handled) :
          (typer.present /\ Gated(handled[i])) =>
              SubSeq(handled[i].keys, Len(handled[i].keys) - 1, Len(handled[i].keys))
                  = <<TextKey(handled[i].emitter[1].text), Space>>

\* C12: at most one chunk is being processed by the recognizer at any
\* moment, and it is the one whose call holds the lock.
C12_OneChunkInRecognizer ==
    /\ Len(in_flight) <= 1
    /\ in_flight # <<>> => (lock = "held" /\ task_pc = "accepting")
    /\ \A k \in 1..Len(submitted) :
          submitted[k].tag = "Pending" => in_flight = <<k>>

C12_Witness ==
    /\ in_flight = <<2>>
    /\ submitted[1].tag = "Some"
    /\ result_q # <<>>
    /\ handled = <<>>

\* C13: "<d> thousand" and "<d> hundred", d in one..nine, come out of the
\* normalizer, and out of the rule table alone, as the whole digit string
\* (1000, 200, ...), never with only the digit word replaced.
C13_MultiWordBeforeDigit ==
    \A d \in 1..9 :
        \A scale \in {<<ThousandWord, 1000>>, <<HundredWord, 100>>} :
            (/\ fn_name \in {"enhance_transcription", "NUMBER_PATTERNS"}
             /\ fn_in = UnitWords[d] \o <<" ">> \o scale[1]
             /\ fn_out # <<>>)
                => fn_out[1] = DigitString(d * scale[2])

C13_Witness ==
    /\ fn_name = "NUMBER_PATTERNS"
    /\ fn_in = ComplexRules[1][1]
    /\ fn_out = << <<"1", "0", "0", "0">> >>

\* C14: the normalizer run on its own output returns it unchanged, for the
\* texts built from the table's phrases; "1000" and "(" come out as they
\* went in.
C14_NormalizerIdempotent ==
    /\ (fn_name = "enhance_transcription") =>
           \A i \in 2..Len(fn_out) : fn_out[i] = fn_out[1]
    /\ (/\ fn_name = "enhance_transcription"
        /\ fn_in \in {<<"1", "0", "0", "0">>, <<"(">>}
        /\ fn_out # <<>>) => fn_out[1] = fn_in

C14_Witness ==
    /\ fn_name = "enhance_transcription"
    /\ fn_in = TermRules[14][1] \o <<" ">> \o TermRules[14][1]
    /\ fn_out = << <<".", " ", ".">>, <<".", " ", ".">> >>

\* C15: the Sample Converter returns as many values as it was given
\* samples, each of them in [-32768, 32767], also for samples outside
\* [-1.0, 1.0].
C15_ConverterLengthAndRange ==
    (fn_name = "convert_f32_to_i16" /\ fn_out # <<>>) =>
        /\ Len(fn_out[1]) = Len(fn_in)
        /\ \A i \in 1..Len(fn_out[1]) :
              fn_out[1][i] >= -32768 /\ fn_out[1][i] <= 32767

C15_Witness ==
    /\ fn_name = "convert_f32_to_i16"
    /\ fn_in = <<F32(6), F32(-8)>>
    /\ fn_out = << <<32767, -32768>> >>

\* C16: every result the adapter has put on the result queue, handled
\* since or not, has a confidence between 0 and 1 (0 and 100 hundredths).
C16_ConfidenceInUnitInterval ==
    /\ \A i \in 1..Len(result_q) :
          result_q[i].res.confidence >= 0 /\ result_q[i].res.confidence <= 100
    /\ \A i \in 1..Len(handled) :
          handled[i].res.confidence >= 0 /\ handled[i].res.confidence <= 100

C16_Witness ==
    /\ Len(handled) = 1
    /\ handled[1].res.is_final
    /\ handled[1].res.confidence = 80
    /\ Len(result_q) = 1
    /\ ~result_q[1].res.is_final
    /\ result_q[1].res.confidence = 50

\* C17 (as claimed): once a push has been handled, fewer than BUFFER_SIZE
\* samples are left in the buffer, whatever the size of the push.
C17_ResidualBelowChunk == Len(buffer) < BUFFER_SIZE

\* C18: every chunk submitted to the recognizer has exactly BUFFER_SIZE
\* samples, before and after conversion; what is left in the buffer when the
\* process ends is not submitted as a shorter chunk.
C18_ChunkLengthConstant ==
    \A k \in 1..Len(submitted) :
        /\ Len(submitted[k].chunk) = BUFFER_SIZE
        /\ Len(submitted[k].i16_chunk) = BUFFER_SIZE

C18_Witness ==
    /\ ~alive
    /\ Len(submitted) = 2
    /\ buffer # <<>>
    /\ Len(pushed) > 2 * BUFFER_SIZE

\* C19: one submit gives at most one event, fixed by the engine's state:
\* Finalized with a text that is not blank gives a final event whose
\* confidence is the first word's score, or 0.8 without word scores;
\* Running with a partial that is not blank gives a non-final event of
\* confidence 0.5; a blank text and any other state give none.
C19_EventByEngineState ==
    (fn_name = "process_audio" /\ fn_out # <<>>) =>
        LET o == fn_in
            r == fn_out[1]
            HasText(t) == \E i \in 1..Len(t) : t[i] # " "
        IN  /\ Len(fn_out) = 1
            /\ IF o.state = "Finalized" /\ HasText(o.text)
               THEN /\ r.tag = "Some"
                    /\ r.result.is_final
                    /\ r.result.text = o.text
                    /\ r.result.confidence
                          = (IF Len(o.words) > 0 THEN Head(o.words) ELSE 80)
               ELSE IF o.state = "Running" /\ HasText(o.partial)
               THEN /\ r.tag = "Some"
                    /\ ~r.result.is_final
                    /\ r.result.text = o.partial
                    /\ r.result.confidence = 50
               ELSE r.tag # "Some"

C19_Witness ==
    /\ fn_name = "process_audio"
    /\ fn_in = [state |-> "Finalized", text |-> <<" ", " ">>, words |-> <<81>>]
    /\ fn_out = << [tag |-> "None"] >>

\* C20: the recognizer lock is held only inside one process_audio call: it
\* is free whenever the task waits at recv, is sending a result or has
\* ended, and it is free again after a call that ended on the engine-error
\* path.
C20_LockOnlyDuringSubmit ==
    /\ task_pc \in {"running", "sending", "ended"} => lock = "free"
    /\ lock = "held" => (task_pc = "accepting" /\ Len(in_flight) = 1)
    /\ (outbox # <<>>) => lock = "free"
    /\ \A k \in 1..Len(submitted) :
          (submitted[k].tag = "Err" /\ in_flight = <<>>) => lock = "free"

C20_Witness ==
    /\ Len(submitted) = 2
    /\ submitted[1].tag = "Err"
    /\ submitted[2].tag = "Some"
    /\ task_pc = "sending"
    /\ lock = "free"

\* C21 (as claimed): once the interrupt has been received the program goes
\* on until main has returned: it is never stopped before that.
C21_ShutdownTerminates ==
    ~alive => (main_pc \in {"ok", "err"} \/ ENABLED NextExit)

\* C22: when the processing task has ended abnormally, main handles the
\* results still queued, leaves its loop and returns an error: it returns
\* only with the queue empty and every yielded result handled, never Ok,
\* and until it has returned one of its steps is enabled.
C22_ProducerLossIsError ==
    /\ main_pc # "loop" =>
          /\ task_pc = "panicked"
          /\ main_pc = "err"
          /\ result_q = <<>>
          /\ [i \in 1..Len(handled) |-> handled[i].chunk] = Yielded
    /\ (task_pc = "panicked" /\ alive /\ main_pc = "loop") =>
          IF result_q # <<>> THEN ENABLED Consume ELSE ENABLED MainExit

C22_Witness ==
    /\ main_pc = "err"
    /\ task_pc = "panicked"
    /\ Len(handled) = 2
    /\ alive

\* C23: the normalizer lower-cases, converts compound numerals, then runs
\* the table: "one hundred twenty three" comes out as "123", and the
\* dictated line as the tokens we need 123 ( x , y ) = 0, in this order.
C23_NumeralsBeforeTable ==
    (fn_name = "enhance_transcription" /\ fn_out # <<>>) =>
        /\ fn_in = CompoundNumeral => fn_out[1] = <<"1", "2", "3">>
        /\ fn_in = DictatedLine =>
              SplitWords(fn_out[1])
                  = << <<"w", "e">>, <<"n", "e", "e", "d">>, <<"1", "2", "3">>,
                       <<"(">>, <<"x">>, <<",">>, <<"y">>, <<")">>, <<"=">>,
                       <<"0">> >>

C23_Witness ==
    /\ fn_name = "enhance_transcription"
    /\ fn_in = DictatedLine
    /\ fn_out
          = << <<"w", "e", " ", "n", "e", "e", "d", " ", "1", "2", "3", " ",
            "(", " ", "x", " ", ",", " ", "y", " ", ")", " ", "=", " ", "0">> >>

\* C24: in every state of the pipeline the typer's tracked partial text is
\* empty, and no backspace has been sent.
C24_NoPartialNoBackspace ==
    /\ typer.last_partial = <<>>
    /\ \A i \in 1..Len(keys) : keys[i] # Backspace
    /\ \A i \in 1..Len(handled) :
          /\ handled[i].partial_before = <<>>
          /\ \A j \in 1..Len(handled[i].keys) : handled[i].keys[j] # Backspace

C24_Witness ==
    /\ typer.present
    /\ Len(handled) = 2
    /\ ~handled[1].res.is_final
    /\ handled[1].res.confidence >= threshold
    /\ Gated(handled[2])
    /\ Len(keys) = 2

\* C25: the chunks submitted so far are never more than the blocks received
\* so far, and every sample received that is not in the buffer is in a
\* chunk; a full chunk left in the buffer is submitted only on a later
\* push: with no block waiting, the task submits nothing.
C25_OneChunkPerPush ==
    /\ Len(submitted) <= pushes - Len(audio_q)
    /\ Len(submitted) * BUFFER_SIZE + Len(buffer) = Len(pushed)
    /\ (audio_q = <<>> /\ Len(buffer) >= BUFFER_SIZE) => ~ENABLED ProcessTask

C25_Witness ==
    /\ pushes = MaxPushes
    /\ audio_q = <<>>
    /\ Len(submitted) = MaxPushes
    /\ Len(buffer) >= BUFFER_SIZE

====
